---- MODULE Spec2Model ----
(***************************************************************************)
(* CubeScene (src/src/components/CubeScene.tsx, lines 7-396): the effect   *)
(* that builds the hex grid of shapes, the pool of arcs and the shimmer    *)
(* list, the frame callback `animate`, the resize handler, the font-load   *)
(* callback and the effect's cleanup function.                             *)
(*                                                                         *)
(* Numbers: progress, speed and opacity are fixed-point with denominator   *)
(* Scale; colours and metalness are fixed-point with denominator           *)
(* ColourScale.  Math.random() is a pseudo-random generator; the model     *)
(* follows a linear congruential generator from every seed in Seeds.       *)
(* Date.now() (the camera orbit) is not modelled.                          *)
(***************************************************************************)
EXTENDS Integers, Sequences, FiniteSets, TLC

VARIABLES
    mounted,            \* TRUE from the end of the effect until its cleanup has run
    uncaught,           \* exceptions that escaped a handler so far
    rng,                \* state of Math.random()
    arcs,               \* the arc pool (slot i of the code is arcs[i + 1])
    shimmerAnimations,  \* the active shimmer records
    material,           \* the one material shared by every shape
    rotation,           \* rotation[i + 1]: <<x, y>> of shape i, in 1/1000
    sceneLines,         \* ids of the arc lines that are children of the scene
    lineSeq,            \* id the next arc line gets
    disposeCalls,       \* resource -> number of dispose() calls on it
    textMesh,           \* Null, or the text mesh the font callback made
    cameraChildren,     \* children of the camera
    camera,             \* aspect and the aspect the projection matrix was built from
    rendererSize,       \* <<width, height>> of the renderer
    window,             \* <<innerWidth, innerHeight>> of the window
    pendingFrames,      \* handles of the frame requests the browser still holds
    animationFrameId,   \* the handle `animate` stored last
    rafSeq,             \* handle the next requestAnimationFrame returns
    frames,             \* invocations of animate so far
    renderCalls,        \* renderer.render calls so far
    faults,             \* geometry updates that threw or sampled invalid points so far
    resizeListener,     \* TRUE while handleResize is registered on the window
    domAttached,        \* TRUE while renderer.domElement is a child of the mount node
    rendererDisposed,   \* TRUE once renderer.dispose() ran
    fontStatus,         \* "loading" until the font callback fires, then "loaded"
    trace,              \* what the last run of animate or of the cleanup did, in order
    hex,                \* the hex-grid loop, run one iteration at a time
    calc,               \* a computation of the program run on its own: inputs and result,
                        \* or one arc whose progress is computed in double precision
    variant             \* the closure of one of the simpler variants of the component

vars == <<mounted, uncaught, rng, arcs, shimmerAnimations, material, rotation,
          sceneLines, lineSeq, disposeCalls, textMesh, cameraChildren, camera,
          rendererSize, window, pendingFrames, animationFrameId, rafSeq, frames,
          renderCalls, faults, resizeListener, domAttached, rendererDisposed,
          fontStatus, trace, hex, calc, variant>>

sceneVars == <<mounted, uncaught, rng, arcs, shimmerAnimations, material, rotation,
               sceneLines, lineSeq, disposeCalls, textMesh, cameraChildren, camera,
               rendererSize, window, pendingFrames, animationFrameId, rafSeq, frames,
               renderCalls, faults, resizeListener, domAttached, rendererDisposed,
               fontStatus, trace>>

\* textMesh before the font callback has run
Null == [null |-> TRUE]

\* animationFrameId before animate has run: no handle the browser gives out
NoHandle == 0

(***************************************************************************)
(* Bounds of the model.                                                    *)
(***************************************************************************)
\* animate is followed for at most this many invocations
MaxFrames == 125
\* the hex-grid loop is run for every gridSize in 0..MaxGrid
MaxGrid == 5
\* the opacity is computed at the progress values k / OpacityGrid, k in 0..OpacityGrid
OpacityGrid == 40
\* the control point is computed for points with coordinates 2 * k, k in -MaxCoord..MaxCoord
MaxCoord == 2
\* animate of a simpler variant is followed for at most this many invocations
MaxVariantFrames == 40

(***************************************************************************)
(* Program constants.                                                      *)
(***************************************************************************)
gridSize == 5
maxArcs == 7
\* updatePercentage = 0.3, as tenths
updatePercentageTenths == 3
\* denominator of progress, speed and opacity
Scale == 10000
\* speed = 0.02 + Math.random() * 0.03
SpeedBase == 200
SpeedSpan == 300
\* anim.progress += 0.05
ShimmerStep == 500
\* curve.getPoints(50) and curve.getPoints(5): divisions + 1 points
CreatePoints == 51
UpdatePoints == 6
\* opacity: 0.5 of the arc's line material
InitialOpacity == 5000
\* denominator of colour channels and metalness
ColourScale == 20000
\* metalness: 0.9
InitialMetalness == 18000
\* shape.rotation.x += 0.003; shape.rotation.y += 0.005 (in 1/1000)
RotationStepX == 3
RotationStepY == 5

\* Math.random(): the generator and the seeds the model follows
RandMod == 65536
RandMul == 25173
RandInc == 13849
Seeds == {1, 2, 3}

\* window.innerWidth x window.innerHeight: the sizes a resize event may bring
Sizes == {<<800, 600>>, <<1024, 768>>, <<1280, 720>>}
InitialSize == <<800, 600>>

\* denominator of positions
PosScale == 400
\* radius * Math.sqrt(3) / 2 and radius * 3 / 2 with radius = 2.5, over PosScale
HexX == 866
HexZ == 1500

\* frames in which a geometry update may throw or sample invalid points
FaultFrames == {30, 65}

(***************************************************************************)
(* The hex-grid loop, lines 43-62.                                         *)
(***************************************************************************)
Max(a, b) == IF a >= b THEN a ELSE b
Min(a, b) == IF a <= b THEN a ELSE b

\* r = Math.max(-gridSize, -q-gridSize)
HexRLo(q, g) == Max(-g, -q - g)

\* HexRHi without the hexagon's upper cut: r <= gridSize
HexRHiSquare(q, g) == g

\* r <= Math.min(gridSize, -q+gridSize)
HexRHi(q, g) == Min(g, -q + g)

\* the loop before its first test: q = -gridSize, no shape yet
HexStart(g) == [g |-> g, q |-> -g, r |-> 0, pc |-> "q", shapes |-> <<>>]

\* one test of a loop condition and what follows it
HexStep(h) ==
    IF h.pc = "q"
    THEN IF h.q <= h.g
         THEN [h EXCEPT !.r = HexRLo(h.q, h.g), !.pc = "r"]
         ELSE [h EXCEPT !.pc = "done"]
    ELSE IF h.r <= HexRHi(h.q, h.g)
         THEN [h EXCEPT !.shapes = Append(@, <<h.q, h.r>>), !.r = @ + 1]
         ELSE [h EXCEPT !.q = @ + 1, !.pc = "q"]

RECURSIVE HexRun(_)
HexRun(h) == IF h.pc = "done" THEN h.shapes ELSE HexRun(HexStep(h))

\* shapes: the (q, r) of every shape, in creation order
shapes == HexRun(HexStart(gridSize))

NumShapes == Len(shapes)

\* shape.position.set(x, 0, z) of shape i:
\* x = radius * (sqrt(3) * q + sqrt(3)/2 * r), z = radius * (3/2 * r)
Position(i) ==
    LET q == shapes[i + 1][1]
        r == shapes[i + 1][2]
    IN  <<HexX * (2 * q + r), 0, HexZ * r>>

(***************************************************************************)
(* Math.random().                                                          *)
(***************************************************************************)
\* the generator's next state, which is also the value it returns (over RandMod)
Random(r) == (RandMul * r + RandInc) % RandMod

\* Math.floor(Math.random() * n), for the value v the call returned
RandomIndex(v, n) == (v * n) \div RandMod

(***************************************************************************)
(* GPU resources: <<kind, id>>.                                            *)
(***************************************************************************)
ShapeIndices == 0 .. (NumShapes - 1)

\* what the effect creates before its first frame, lines 22-62 and 210-211
StaticResources ==
    {<<"geometry", 0>>, <<"material", 0>>, <<"wireframeMaterial", 0>>,
     <<"starsGeometry", 0>>, <<"starsMaterial", 0>>}
    \cup {<<"wireframe", i>> : i \in ShapeIndices}

ArcResources(id) == {<<"arcGeometry", id>>, <<"arcMaterial", id>>}

TextResources == {<<"textGeometry", 0>>, <<"textMaterial", 0>>}

\* one dispose() call on resource x
Dispose(d, x) == IF x \in DOMAIN d THEN [d EXCEPT ![x] = @ + 1] ELSE d @@ (x :> 1)

\* n dispose() calls on resource x
DisposeTimes(d, x, n) ==
    IF n = 0 THEN d
    ELSE IF x \in DOMAIN d THEN [d EXCEPT ![x] = @ + n] ELSE d @@ (x :> n)

Disposed(d, x) == x \in DOMAIN d

(***************************************************************************)
(* Arcs, lines 81-135.                                                     *)
(***************************************************************************)
\* disposeArc without scene.remove(arc.line)
disposeArcKeepsLine(c, arc) ==
    [c EXCEPT !.disposeCalls = Dispose(Dispose(@, <<"arcGeometry", arc.line.id>>),
                                       <<"arcMaterial", arc.line.id>>),
              !.trace = Append(@, [op |-> "disposeArc", line |-> arc.line.id])]

\* disposeArc: arc.line is always set, and its material is a THREE.Material
disposeArc(c, arc) ==
    [c EXCEPT !.disposeCalls = Dispose(Dispose(@, <<"arcGeometry", arc.line.id>>),
                                       <<"arcMaterial", arc.line.id>>),
              !.sceneLines = @ \ {arc.line.id},
              !.trace = Append(@, [op |-> "disposeArc", line |-> arc.line.id])]

\* Math.sqrt, rounded down: Newton's iteration from x >= sqrt(n)
RECURSIVE IsqrtFrom(_, _)
IsqrtFrom(n, x) == IF x * x <= n THEN x ELSE IsqrtFrom(n, (x + n \div x) \div 2)

Isqrt(n) == IsqrtFrom(n, Min(n, 46340))

\* a.distanceTo(b)
Distance(a, b) ==
    Isqrt((a[1] - b[1]) * (a[1] - b[1]) + (a[2] - b[2]) * (a[2] - b[2])
          + (a[3] - b[3]) * (a[3] - b[3]))

\* addVectors(start, end).multiplyScalar(0.5)
Midpoint(a, b) == <<(a[1] + b[1]) \div 2, (a[2] + b[2]) \div 2, (a[3] + b[3]) \div 2>>

\* ControlPoint with height = start.distanceTo(end), without the * 0.5
ControlPointFullHeight(start, end) ==
    LET mid == Midpoint(start, end)
    IN  <<mid[1], mid[2] + Distance(start, end), mid[3]>>

\* lines 106-108: mid, height = start.distanceTo(end) * 0.5, control = mid + (0, height, 0)
ControlPoint(start, end) ==
    LET mid == Midpoint(start, end)
        height == Distance(start, end) \div 2
    IN  <<mid[1], mid[2] + height, mid[3]>>

\* PickEnd without the loop: the first draw is taken
PickEndFirstDraw(r, startShape) == Random(r)

\* do { endShape = ... } while (endShape === startShape): the generator state
\* after the draw that was accepted
RECURSIVE PickEnd(_, _)
PickEnd(r, startShape) ==
    LET v == Random(r)
    IN  IF RandomIndex(v, NumShapes) = startShape THEN PickEnd(v, startShape) ELSE v

\* the times the body of the do-while ran
RECURSIVE PickEndDraws(_, _)
PickEndDraws(r, startShape) ==
    LET v == Random(r)
    IN  IF RandomIndex(v, NumShapes) = startShape THEN 1 + PickEndDraws(v, startShape) ELSE 1

\* createArc: the new arc, and the closure after scene.add(line)
createArc(c) ==
    LET v1 == Random(c.rng)
        startShape == RandomIndex(v1, NumShapes)
        v2 == PickEnd(v1, startShape)
        endShape == RandomIndex(v2, NumShapes)
        v3 == Random(v2)
        arc == [line |-> [id |-> c.lineSeq, points |-> CreatePoints,
                          opacity |-> InitialOpacity],
                progress |-> 0,
                speed |-> SpeedBase + (v3 * SpeedSpan) \div RandMod,
                start |-> Position(startShape),
                end |-> Position(endShape),
                control |-> ControlPoint(Position(startShape), Position(endShape)),
                startShape |-> startShape,
                targetShape |-> endShape,
                active |-> TRUE]
    IN  [arc |-> arc,
         c |-> [c EXCEPT !.rng = v3,
                         !.lineSeq = @ + 1,
                         !.sceneLines = @ \cup {c.lineSeq},
                         !.trace = Append(@, [op |-> "createArc", line |-> c.lineSeq,
                                              draws |-> PickEndDraws(v1, startShape)])]]

\* ReplaceArc writing the new arc to the slot after `index`
ReplaceArcNextSlot(c, index) ==
    LET n == createArc(c)
    IN  [n.c EXCEPT !.arcs[((index + 1) % Len(c.arcs)) + 1] = n.arc]

\* ReplaceArc that calls createArc() and drops what it returns
ReplaceArcNotStored(c, index) == createArc(c).c

\* arcs[index] = createArc()
ReplaceArc(c, index) ==
    LET n == createArc(c)
    IN  [n.c EXCEPT !.arcs[index + 1] = n.arc]

\* arcs.push(createArc())
PushArc(c) ==
    LET n == createArc(c)
    IN  [n.c EXCEPT !.arcs = Append(@, n.arc)]

(***************************************************************************)
(* Shimmer, lines 148-157 and 313-340.                                     *)
(***************************************************************************)
\* 1000 * sin(k * 2 * pi / 20): Math.sin(anim.progress * Math.PI * 2) at progress k * 0.05
Sin1000 == <<309, 588, 809, 951, 1000, 951, 809, 588, 309, 0,
             -309, -588, -809, -951, -1000, -951, -809, -588, -309, 0>>

\* shimmerIntensity = sin(...) * 0.5 + 0.5, over 2000
ShimmerIntensity(progress) == Sin1000[progress \div ShimmerStep] + 1000

\* new THREE.Color(0x888888) and new THREE.Color(0x000000), channels over ColourScale
InitialColor == <<(136 * ColourScale) \div 255, (136 * ColourScale) \div 255,
                  (136 * ColourScale) \div 255>>
InitialEmissive == <<0, 0, 0>>

InitialMaterial ==
    [color |-> InitialColor, metalness |-> InitialMetalness, emissive |-> InitialEmissive]

\* startShimmerEffect with progress: 0.05 for progress: 0
startShimmerEffectAdvanced(c, shape) ==
    [c EXCEPT !.shimmerAnimations =
                  Append(@, [shape |-> shape,
                             progress |-> ShimmerStep,
                             originalColor |-> c.material.color,
                             originalMetalness |-> c.material.metalness,
                             originalEmissive |-> c.material.emissive]),
              !.trace = Append(@, [op |-> "startShimmerEffect", shape |-> shape,
                                   progress |-> ShimmerStep])]

\* startShimmerEffect: every shape's material is the shared one
startShimmerEffect(c, shape) ==
    [c EXCEPT !.shimmerAnimations =
                  Append(@, [shape |-> shape,
                             progress |-> 0,
                             originalColor |-> c.material.color,
                             originalMetalness |-> c.material.metalness,
                             originalEmissive |-> c.material.emissive]),
              !.trace = Append(@, [op |-> "startShimmerEffect", shape |-> shape,
                                   progress |-> 0])]

\* lines 321-331: the material while the record is at `progress`
ShimmerMaterial(anim, progress) ==
    LET i == ShimmerIntensity(progress)
    IN  [emissive |-> <<10 * i, 5 * i, 2 * i>>,
         metalness |-> anim.originalMetalness + i,
         color |-> <<ColourScale, 8 * (2000 - i) + 10000, 8 * (2000 - i) + 4000>>]

\* RestoreMaterial without material.metalness = anim.originalMetalness: the
\* metalness stays what line 326 set it to at progress 1
RestoreMaterialKeepsMetalness(anim) ==
    [emissive |-> anim.originalEmissive,
     metalness |-> anim.originalMetalness + (Sin1000[Scale \div ShimmerStep] + 1000),
     color |-> anim.originalColor]

\* lines 335-337: the material after the record's values are copied back
RestoreMaterial(anim) ==
    [emissive |-> anim.originalEmissive,
     metalness |-> anim.originalMetalness,
     color |-> anim.originalColor]

RemoveAt(s, i) == SubSeq(s, 1, i - 1) \o SubSeq(s, i + 1, Len(s))

\* the loop body for record i (slot i - 1 of the code's list), lines 314-339
ShimmerUpdate(c, i) ==
    LET anim == c.shimmerAnimations[i]
        progress == anim.progress + ShimmerStep
        restored == [c EXCEPT !.material = RestoreMaterial(anim),
                              !.shimmerAnimations = RemoveAt(@, i)]
    IN  IF progress >= Scale
        THEN [restored EXCEPT !.trace =
                  Append(@, [op |-> "restore",
                             index |-> i - 1,
                             anim |-> [anim EXCEPT !.progress = progress],
                             material |-> restored.material,
                             before |-> c.shimmerAnimations,
                             after |-> restored.shimmerAnimations])]
        ELSE [c EXCEPT !.material = ShimmerMaterial(anim, progress),
                       !.shimmerAnimations[i].progress = progress]

\* for (let i = shimmerAnimations.length - 1; i >= 0; i--)
RECURSIVE ShimmerPass(_, _)
ShimmerPass(c, i) == IF i < 1 THEN c ELSE ShimmerPass(ShimmerUpdate(c, i), i - 1)

(***************************************************************************)
(* The frame callback, lines 243-344.  A closure record c holds the        *)
(* variables of the same names.                                            *)
(***************************************************************************)
Swap(a, i, j) == [a EXCEPT ![i + 1] = a[j + 1], ![j + 1] = a[i + 1]]

\* lines 267-270: for (let i = length - 1; i > 0; i--) swap a[i] with a[floor(random * (i + 1))]
RECURSIVE Shuffle(_, _, _)
Shuffle(a, i, r) ==
    IF i <= 0
    THEN [indices |-> a, rng |-> r]
    ELSE LET v == Random(r)
         IN  Shuffle(Swap(a, i, RandomIndex(v, i + 1)), i - 1, v)

\* numArcsToUpdate with Math.ceil for Math.floor
numArcsToUpdateRoundUp(length) == Max(1, (length * updatePercentageTenths + 9) \div 10)

\* Math.max(1, Math.floor(arcs.length * updatePercentage))
numArcsToUpdate(length) == Max(1, (length * updatePercentageTenths) \div 10)

\* numPoints without Math.max(2, ...)
numPointsNoMinimum(progress) == (UpdatePoints * progress) \div Scale

\* Math.max(2, Math.floor(points.length * arc.progress)); points = curve.getPoints(5)
\* holds UpdatePoints points
numPoints(progress) == Max(2, (UpdatePoints * progress) \div Scale)

\* ArcOpacity without Math.min(1, ...)
ArcOpacityNoClamp(progress) == (2 * (Scale - progress)) \div 2

\* Math.min(1, 2 * (1 - arc.progress)) * 0.5
ArcOpacity(progress) == Min(Scale, 2 * (Scale - progress)) \div 2

\* what the try block of lines 288-302 can come to
Outcomes == {"ok", "invalid", "throw"}

\* CatchReplace that rewinds the arc in its slot instead of replacing it
CatchRewind(c, index, arc) == [c EXCEPT !.arcs[index + 1].progress = 0]

\* no catch block: the exception leaves the forEach callback
CatchNothing(c, index, arc) == [c EXCEPT !.uncaught = @ + 1]

\* CatchReplace without disposeArc(arc): the old line stays in the scene
CatchReplaceUndisposed(c, index, arc) == ReplaceArc(c, index)

\* lines 303-307: the catch block
CatchReplace(c, index, arc) == ReplaceArc(disposeArc(c, arc), index)

\* lines 274-309: the callback of forEach for slot `index`; `out` is what
\* recomputing the geometry comes to when the arc gets that far
UpdateArc(c, index, out) ==
    LET arc == c.arcs[index + 1]
        progress == arc.progress + arc.speed
        moved == [c EXCEPT !.arcs[index + 1].progress = progress]
    IN  IF ~arc.active
        THEN c
        ELSE IF progress >= Scale
        THEN ReplaceArc(disposeArc(startShimmerEffect(moved, arc.targetShape), arc), index)
        ELSE IF out = "throw"
        THEN CatchReplace([moved EXCEPT !.faults = @ + 1,
                                        !.trace = Append(@, [op |-> "throw",
                                                             index |-> index,
                                                             arc |-> moved.arcs[index + 1]])],
                          index, arc)
        ELSE IF out = "invalid"
        THEN [moved EXCEPT !.faults = @ + 1,
                           !.trace = Append(@, [op |-> "invalidPoints",
                                                index |-> index,
                                                arc |-> moved.arcs[index + 1]])]
        ELSE [moved EXCEPT !.arcs[index + 1].line.points = numPoints(progress),
                           !.arcs[index + 1].line.opacity = ArcOpacity(progress)]

\* arcIndices.slice(0, numArcsToUpdate).forEach(...): an exception that escapes
\* the callback ends the loop
RECURSIVE ArcPass(_, _, _)
ArcPass(c, sel, outs) ==
    IF sel = <<>>
    THEN c
    ELSE LET n == UpdateArc(c, Head(sel), Head(outs))
         IN  IF n.uncaught > c.uncaught THEN n ELSE ArcPass(n, Tail(sel), Tail(outs))

\* shapes.forEach(shape => { shape.rotation.x += 0.003; shape.rotation.y += 0.005 })
RotateShapes(rot) ==
    [i \in DOMAIN rot |-> <<rot[i][1] + RotationStepX, rot[i][2] + RotationStepY>>]

\* animate without line 244
RequestFrameNever(c) == c

\* line 244: animationFrameId = requestAnimationFrame(animate)
RequestFrame(c) ==
    [c EXCEPT !.animationFrameId = c.rafSeq,
              !.pendingFrames = @ \cup {c.rafSeq},
              !.rafSeq = @ + 1,
              !.trace = Append(@, [op |-> "requestAnimationFrame", handle |-> c.rafSeq])]

\* line 343: renderer.render(scene, camera)
Render(c) ==
    [c EXCEPT !.renderCalls = @ + 1,
              !.trace = Append(@, [op |-> "render"])]

\* animate, from requestAnimationFrame to renderer.render; an exception that
\* escapes the arc pass ends the invocation
animate(c, outs) ==
    LET c1 == RequestFrame([c EXCEPT !.frames = @ + 1, !.trace = <<>>])
        sh == Shuffle([i \in 1 .. Len(c.arcs) |-> i - 1], Len(c.arcs) - 1, c.rng)
        sel == SubSeq(sh.indices, 1, numArcsToUpdate(Len(c.arcs)))
        c2 == [c1 EXCEPT !.rotation = RotateShapes(@),
                         !.rng = sh.rng,
                         !.trace = Append(@, [op |-> "select", indices |-> sel])]
        c3 == ArcPass(c2, sel, outs)
    IN  IF c3.uncaught > c.uncaught
        THEN c3
        ELSE Render(ShimmerPass([c3 EXCEPT !.trace = Append(@, [op |-> "shimmerPass"])],
                                Len(c3.shimmerAnimations)))

(***************************************************************************)
(* The effect, lines 10-355.                                               *)
(***************************************************************************)
\* for (let i = 0; i < maxArcs; i++) arcs.push(createArc())
RECURSIVE InitArcs(_, _)
InitArcs(c, i) == IF i >= maxArcs THEN c ELSE InitArcs(PushArc(c), i + 1)

RECURSIVE Gcd(_, _)
Gcd(a, b) == IF b = 0 THEN a ELSE Gcd(b, a % b)

\* window.innerWidth / window.innerHeight, as a fraction in lowest terms
Aspect(size) == <<size[1] \div Gcd(size[1], size[2]), size[2] \div Gcd(size[1], size[2])>>

\* the closure when the effect reaches line 346, before it calls animate()
Setup(seed) ==
    InitArcs([mounted |-> TRUE,
              uncaught |-> 0,
              rng |-> seed,
              arcs |-> <<>>,
              shimmerAnimations |-> <<>>,
              material |-> InitialMaterial,
              rotation |-> [i \in 1 .. NumShapes |-> <<0, 0>>],
              sceneLines |-> {},
              lineSeq |-> 1,
              disposeCalls |-> <<>>,
              textMesh |-> Null,
              cameraChildren |-> {},
              camera |-> [aspect |-> Aspect(InitialSize), projection |-> Aspect(InitialSize)],
              rendererSize |-> InitialSize,
              window |-> InitialSize,
              pendingFrames |-> {},
              animationFrameId |-> NoHandle,
              rafSeq |-> 1,
              frames |-> 0,
              renderCalls |-> 0,
              faults |-> 0,
              resizeListener |-> FALSE,
              domAttached |-> TRUE,
              rendererDisposed |-> FALSE,
              fontStatus |-> "loading",
              trace |-> <<>>], 0)

\* lines 346-355: animate(), then window.addEventListener('resize', handleResize)
Effect(seed, outs) == [animate(Setup(seed), outs) EXCEPT !.resizeListener = TRUE]

\* handleResize without camera.updateProjectionMatrix()
handleResizeStaleProjection(c) ==
    [c EXCEPT !.camera.aspect = Aspect(c.window),
              !.rendererSize = c.window]

\* handleResize, lines 349-353
handleResize(c) ==
    [c EXCEPT !.camera = [aspect |-> Aspect(c.window), projection |-> Aspect(c.window)],
              !.rendererSize = c.window]

\* the callback of fontLoader.load, lines 169-191
fontLoaded(c) ==
    [c EXCEPT !.textMesh = [geometry |-> <<"textGeometry", 0>>,
                            material |-> <<"textMaterial", 0>>],
              !.cameraChildren = @ \cup {"textMesh"},
              !.fontStatus = "loaded"]

(***************************************************************************)
(* The cleanup function, lines 358-392.  A statement that throws ends it.  *)
(***************************************************************************)
\* arcs.forEach(disposeArc)
RECURSIVE CleanupArcs(_, _)
CleanupArcs(c, i) ==
    IF i > Len(c.arcs) THEN c ELSE CleanupArcs(disposeArc(c, c.arcs[i]), i + 1)

\* shapes.forEach: shape.geometry and shape.material are the shared ones, so
\* each gets one dispose() call per shape
CleanupShapes(c) ==
    [c EXCEPT !.disposeCalls = DisposeTimes(DisposeTimes(@, <<"geometry", 0>>, NumShapes),
                                            <<"material", 0>>, NumShapes)]

\* CleanupText without the test of textMesh: textMesh.geometry throws on null
CleanupTextUnguarded(c) ==
    IF c.textMesh # Null
    THEN [c EXCEPT !.disposeCalls = Dispose(Dispose(@, c.textMesh.geometry),
                                            c.textMesh.material),
                   !.cameraChildren = @ \ {"textMesh"}]
    ELSE [c EXCEPT !.uncaught = @ + 1]

\* lines 369-373: if (textMesh) { ... }
CleanupText(c) ==
    IF c.textMesh # Null
    THEN [c EXCEPT !.disposeCalls = Dispose(Dispose(@, c.textMesh.geometry),
                                            c.textMesh.material),
                   !.cameraChildren = @ \ {"textMesh"}]
    ELSE c

\* lines 376-377
CleanupStars(c) ==
    [c EXCEPT !.disposeCalls = Dispose(Dispose(@, <<"starsGeometry", 0>>),
                                       <<"starsMaterial", 0>>)]

\* lines 386-391: renderer.dispose(), removeChild, cancelAnimationFrame, removeEventListener
CleanupRenderer(c) ==
    [c EXCEPT !.rendererDisposed = TRUE,
              !.domAttached = FALSE,
              !.pendingFrames = @ \ {c.animationFrameId},
              !.resizeListener = FALSE]

CleanupArcsAll(c) == CleanupArcs(c, 1)

\* the statements of the cleanup in order; one that throws ends it
cleanup(c) ==
    LET c1 == CleanupArcsAll([c EXCEPT !.trace = <<[op |-> "cleanup"]>>])
        c2 == IF c1.uncaught > c.uncaught THEN c1 ELSE CleanupShapes(c1)
        c3 == IF c2.uncaught > c.uncaught THEN c2 ELSE CleanupText(c2)
        c4 == IF c3.uncaught > c.uncaught THEN c3 ELSE CleanupStars(c3)
        c5 == IF c4.uncaught > c.uncaught THEN c4 ELSE CleanupRenderer(c4)
    IN  [c5 EXCEPT !.mounted = FALSE]

(***************************************************************************)
(* The state machine.                                                      *)
(***************************************************************************)
Closure ==
    [mounted |-> mounted, uncaught |-> uncaught, rng |-> rng, arcs |-> arcs,
     shimmerAnimations |-> shimmerAnimations, material |-> material,
     rotation |-> rotation, sceneLines |-> sceneLines, lineSeq |-> lineSeq,
     disposeCalls |-> disposeCalls, textMesh |-> textMesh,
     cameraChildren |-> cameraChildren, camera |-> camera,
     rendererSize |-> rendererSize, window |-> window,
     pendingFrames |-> pendingFrames,
     animationFrameId |-> animationFrameId, rafSeq |-> rafSeq, frames |-> frames,
     renderCalls |-> renderCalls, faults |-> faults, resizeListener |-> resizeListener,
     domAttached |-> domAttached, rendererDisposed |-> rendererDisposed,
     fontStatus |-> fontStatus, trace |-> trace]

\* the state is the closure c
Is(c) ==
    /\ mounted = c.mounted /\ uncaught = c.uncaught /\ rng = c.rng
    /\ arcs = c.arcs /\ shimmerAnimations = c.shimmerAnimations
    /\ material = c.material /\ rotation = c.rotation /\ sceneLines = c.sceneLines
    /\ lineSeq = c.lineSeq /\ disposeCalls = c.disposeCalls /\ textMesh = c.textMesh
    /\ cameraChildren = c.cameraChildren /\ camera = c.camera
    /\ rendererSize = c.rendererSize /\ window = c.window
    /\ pendingFrames = c.pendingFrames
    /\ animationFrameId = c.animationFrameId /\ rafSeq = c.rafSeq /\ frames = c.frames
    /\ renderCalls = c.renderCalls /\ faults = c.faults
    /\ resizeListener = c.resizeListener /\ domAttached = c.domAttached
    /\ rendererDisposed = c.rendererDisposed /\ fontStatus = c.fontStatus
    /\ trace = c.trace

\* the next state is the closure c
Becomes(c) ==
    /\ mounted' = c.mounted /\ uncaught' = c.uncaught /\ rng' = c.rng
    /\ arcs' = c.arcs /\ shimmerAnimations' = c.shimmerAnimations
    /\ material' = c.material /\ rotation' = c.rotation /\ sceneLines' = c.sceneLines
    /\ lineSeq' = c.lineSeq /\ disposeCalls' = c.disposeCalls /\ textMesh' = c.textMesh
    /\ cameraChildren' = c.cameraChildren /\ camera' = c.camera
    /\ rendererSize' = c.rendererSize /\ window' = c.window
    /\ pendingFrames' = c.pendingFrames
    /\ animationFrameId' = c.animationFrameId /\ rafSeq' = c.rafSeq /\ frames' = c.frames
    /\ renderCalls' = c.renderCalls /\ faults' = c.faults
    /\ resizeListener' = c.resizeListener /\ domAttached' = c.domAttached
    /\ rendererDisposed' = c.rendererDisposed /\ fontStatus' = c.fontStatus
    /\ trace' = c.trace

\* no computation run on its own
NoCalc == [op |-> "none"]

\* no simpler variant mounted
NoVariant == [which |-> "none"]

\* what the geometry updates of frame f may come to, one outcome per selected arc
NoFaults(n) == [k \in 1 .. n |-> "ok"]

FrameOutcomes(f, n) == IF f \in FaultFrames THEN [1 .. n -> Outcomes] ELSE {NoFaults(n)}

Init ==
    /\ \E seed \in Seeds, outs \in FrameOutcomes(1, numArcsToUpdate(maxArcs)) : Is(Effect(seed, outs))
    /\ hex = HexStart(gridSize)
    /\ calc = NoCalc
    /\ variant = NoVariant

\* the browser runs the callback of a pending frame request
Animate ==
    /\ frames < MaxFrames
    /\ \E h \in pendingFrames, outs \in FrameOutcomes(frames + 1, numArcsToUpdate(Len(arcs))) :
           Becomes(animate([Closure EXCEPT !.pendingFrames = @ \ {h}], outs))
    /\ UNCHANGED <<hex, calc, variant>>

\* the window gets another size and the resize event reaches the registered listener
Resize ==
    /\ resizeListener
    /\ \E size \in Sizes : Becomes(handleResize([Closure EXCEPT !.window = size]))
    /\ UNCHANGED <<hex, calc, variant>>

\* the font arrives
FontLoaded ==
    /\ fontStatus = "loading"
    /\ Becomes(fontLoaded(Closure))
    /\ UNCHANGED <<hex, calc, variant>>

\* the component unmounts: React runs the cleanup function, once
Unmount ==
    /\ mounted
    /\ Becomes(cleanup(Closure))
    /\ UNCHANGED <<hex, calc, variant>>

Next == Animate \/ Resize \/ FontLoaded \/ Unmount

Spec == Init /\ [][Next]_vars

\* a frame request is pending and the model still follows animate
AnimateEnabled == frames < MaxFrames /\ pendingFrames # {}

\* the browser runs the callback of a pending frame request in the end: animate
\* is not left pending for ever (weak fairness of Animate, whose steps are the
\* ones that raise `frames`)
AnimateFair == []<>(~AnimateEnabled) \/ []<><<frames' = frames + 1>>_vars

FairSpec == Init /\ [][Next]_vars /\ AnimateFair

(***************************************************************************)
(* The hex-grid loop on its own, for every gridSize up to MaxGrid.         *)
(***************************************************************************)
HexInit ==
    /\ Is(Effect(CHOOSE seed \in Seeds : TRUE, NoFaults(numArcsToUpdate(maxArcs))))
    /\ hex \in {HexStart(g) : g \in 0 .. MaxGrid}
    /\ calc = NoCalc
    /\ variant = NoVariant

HexNext ==
    /\ hex.pc # "done"
    /\ hex' = HexStep(hex)
    /\ UNCHANGED <<sceneVars, calc, variant>>

HexSpec == HexInit /\ [][HexNext]_vars

(***************************************************************************)
(* The arc opacity (lines 300-301) and the control point (lines 106-108)   *)
(* on their own, for inputs from a grid.                                   *)
(***************************************************************************)
\* progress values 0, 1 / OpacityGrid, ..., 1
Progresses == {(k * Scale) \div OpacityGrid : k \in 0 .. OpacityGrid}

\* points whose coordinates are the even numbers of -2 * MaxCoord .. 2 * MaxCoord
Vectors ==
    {<<2 * PosScale * x, 2 * PosScale * y, 2 * PosScale * z>> :
         x \in -MaxCoord .. MaxCoord, y \in -MaxCoord .. MaxCoord, z \in -MaxCoord .. MaxCoord}

CalcInit ==
    /\ Is(Effect(CHOOSE seed \in Seeds : TRUE, NoFaults(numArcsToUpdate(maxArcs))))
    /\ hex = HexStart(gridSize)
    /\ calc = NoCalc
    /\ variant = NoVariant

\* the opacity of lines 300-301 for two progress values, computed once
OpacityCalc ==
    /\ calc = NoCalc
    /\ \E p, q \in Progresses :
           calc' = [op |-> "opacity", p |-> p, q |-> q,
                    atP |-> ArcOpacity(p), atQ |-> ArcOpacity(q)]
    /\ UNCHANGED <<sceneVars, hex, variant>>

\* the control point of lines 106-108 for a start and an end, computed once
ControlCalc ==
    /\ calc = NoCalc
    /\ \E start, end \in Vectors :
           calc' = [op |-> "control", start |-> start, end |-> end,
                    control |-> ControlPoint(start, end)]
    /\ UNCHANGED <<sceneVars, hex, variant>>

CalcNext == OpacityCalc \/ ControlCalc

CalcSpec == CalcInit /\ [][CalcNext]_vars

(***************************************************************************)
(* The progress of one arc in double precision: speed (line 128),          *)
(* `arc.progress += arc.speed` (line 276) and the test `arc.progress >= 1` *)
(* (line 278).  A double in [0, 2) that is a multiple of 2^-58 is a pair   *)
(* <<hi, lo>> with value (hi * Limb + lo) / 2^58; every speed and every    *)
(* running sum of the program is such a double.                            *)
(***************************************************************************)
\* 2^29
Limb == 536870912

\* progress: 0 of createArc
DoubleZero == <<0, 0>>

\* the sum of two doubles before it is rounded
ExactAdd(a, b) ==
    LET lo == a[2] + b[2]
    IN  <<a[1] + b[1] + (lo \div Limb), lo % Limb>>

\* the low bits of x that do not fit the 53-bit significand of a double
DroppedBits(x) ==
    IF x[1] < 2^24 THEN 0
    ELSE CHOOSE n \in 1 .. 6 : 2^(23 + n) <= x[1] /\ x[1] < 2^(24 + n)

\* rounding that drops the low bits (round toward zero)
RoundToDoubleTruncating(x) ==
    LET m == 2^DroppedBits(x)
    IN  <<x[1], x[2] - (x[2] % m)>>

\* IEEE 754 round to nearest, ties to even
RoundToDouble(x) ==
    LET m == 2^DroppedBits(x)
        rem == x[2] % m
        down == x[2] - rem
        up == IF 2 * rem > m \/ (2 * rem = m /\ (down \div m) % 2 = 1)
              THEN down + m ELSE down
    IN  <<x[1] + (up \div Limb), up % Limb>>

\* a + b of two doubles
DoubleAdd(a, b) == RoundToDouble(ExactAdd(a, b))

\* x >= 1
AtLeastOne(x) == x[1] >= Limb

\* 0.02 + Math.random() * 0.03 (line 128) for these values of Math.random():
\* 0, 1/4, 1/2, 3/4, 0.6666666666666666, 0.8484848484848485, 1 - 2^-52 and
\* 1 - 2^-53 (the largest value of a generator with 52, with 53 random bits).
\* The speeds are the doubles 0.02, 0.0275, 0.035, 0.042499999999999996,
\* 0.039999999999999994, 0.045454545454545456, 0.04999999999999999 and
\* 0.049999999999999996.
DoubleSpeeds ==
    {<<10737418, 128849019>>, <<14763950, 42949673>>, <<18790481, 493921240>>,
     <<22817013, 408021892>>, <<21474836, 257698036>>, <<24403223, 146419340>>,
     <<26843545, 322122544>>, <<26843545, 322122546>>}

\* no arc has been replaced yet
NoArc == [speed |-> DoubleZero, selections |-> 0]

\* createArc: progress 0 and a speed that stays with the arc
DoubleArc(speed, last) ==
    [op |-> "arc", speed |-> speed, progress |-> DoubleZero, selections |-> 0,
     event |-> "created", last |-> last]

\* lines 276-287 for a selected arc whose update does not fail: the arc
\* advances, and at progress >= 1 createArc() takes its slot
AdvanceArc(a, newSpeed) ==
    LET progress == DoubleAdd(a.progress, a.speed)
    IN  IF AtLeastOne(progress)
        THEN [DoubleArc(newSpeed, [speed |-> a.speed, selections |-> a.selections + 1])
                  EXCEPT !.event = "replaced"]
        ELSE [a EXCEPT !.progress = progress, !.selections = @ + 1,
                       !.event = "advanced"]

ProgressInit ==
    /\ Is(Effect(CHOOSE seed \in Seeds : TRUE, NoFaults(numArcsToUpdate(maxArcs))))
    /\ hex = HexStart(gridSize)
    /\ variant = NoVariant
    /\ \E speed \in DoubleSpeeds : calc = DoubleArc(speed, NoArc)

\* a frame that selects the slot of the arc
ArcSelected ==
    /\ calc.op = "arc"
    /\ \E newSpeed \in DoubleSpeeds : calc' = AdvanceArc(calc, newSpeed)
    /\ UNCHANGED <<sceneVars, hex, variant>>

\* a frame that selects other slots: nothing touches the arc
ArcNotSelected ==
    /\ calc.op = "arc"
    /\ calc' = [calc EXCEPT !.event = "skipped"]
    /\ UNCHANGED <<sceneVars, hex, variant>>

ProgressNext == ArcSelected \/ ArcNotSelected

\* the slot is selected in infinitely many frames
SelectedOften == []<><<ArcSelected>>_vars

ProgressSpec == ProgressInit /\ [][ProgressNext]_vars /\ SelectedOften

(***************************************************************************)
(* The simpler variants of the component: CubeScene.tsx lines 406-579      *)
(* ("second": the hex grid of shapes and the text, no arcs) and            *)
(* unnamed/part_000 ("part_000": one cube).  Their animate, handleResize   *)
(* and cleanup are the same statements.                                    *)
(***************************************************************************)
Variants == {"second", "part_000"}

\* the closure when the effect reaches animate()
VariantSetup(which) ==
    [which |-> which,
     mounted |-> TRUE,
     pendingFrames |-> {},
     rafSeq |-> 1,
     frames |-> 0,
     renderCalls |-> 0,
     rotation |-> 0,
     disposeCalls |-> <<>>,
     textAdded |-> FALSE,
     camera |-> [aspect |-> Aspect(InitialSize), projection |-> Aspect(InitialSize)],
     rendererSize |-> InitialSize,
     window |-> InitialSize,
     resizeListener |-> FALSE,
     domAttached |-> TRUE]

\* animate: requestAnimationFrame(animate), whose handle is not kept; the
\* rotation of every shape += 0.001; renderer.render(scene, camera)
VariantAnimateBody(v) ==
    [v EXCEPT !.pendingFrames = @ \cup {v.rafSeq},
              !.rafSeq = @ + 1,
              !.frames = @ + 1,
              !.rotation = @ + 1,
              !.renderCalls = @ + 1]

\* the effect: setup, animate(), window.addEventListener('resize', handleResize)
VariantEffect(which) == [VariantAnimateBody(VariantSetup(which)) EXCEPT !.resizeListener = TRUE]

VariantHandleResize(v) ==
    [v EXCEPT !.camera = [aspect |-> Aspect(v.window), projection |-> Aspect(v.window)],
              !.rendererSize = v.window]

\* the cleanup: removeEventListener, removeChild, four dispose() calls; no
\* cancelAnimationFrame
VariantCleanup(v) ==
    [v EXCEPT !.resizeListener = FALSE,
              !.domAttached = FALSE,
              !.disposeCalls = Dispose(Dispose(Dispose(Dispose(@, <<"geometry", 0>>),
                                                       <<"material", 0>>),
                                               <<"starsGeometry", 0>>),
                                       <<"starsMaterial", 0>>),
              !.mounted = FALSE]

VariantInit ==
    /\ Is(Effect(CHOOSE seed \in Seeds : TRUE, NoFaults(numArcsToUpdate(maxArcs))))
    /\ hex = HexStart(gridSize)
    /\ calc = NoCalc
    /\ \E which \in Variants : variant = VariantEffect(which)

\* the browser runs the callback of a pending frame request
VariantAnimate ==
    /\ variant.frames < MaxVariantFrames
    /\ \E h \in variant.pendingFrames :
           variant' = VariantAnimateBody([variant EXCEPT !.pendingFrames = @ \ {h}])
    /\ UNCHANGED <<sceneVars, hex, calc>>

VariantResize ==
    /\ variant.resizeListener
    /\ \E size \in Sizes : variant' = VariantHandleResize([variant EXCEPT !.window = size])
    /\ UNCHANGED <<sceneVars, hex, calc>>

\* the font arrives (second variant): the callback adds the text to the camera
VariantFontLoaded ==
    /\ variant.which = "second"
    /\ ~variant.textAdded
    /\ variant' = [variant EXCEPT !.textAdded = TRUE]
    /\ UNCHANGED <<sceneVars, hex, calc>>

\* the component unmounts: React runs the cleanup function, once
VariantUnmount ==
    /\ variant.mounted
    /\ variant' = VariantCleanup(variant)
    /\ UNCHANGED <<sceneVars, hex, calc>>

VariantNext == VariantAnimate \/ VariantResize \/ VariantFontLoaded \/ VariantUnmount

VariantSpec == VariantInit /\ [][VariantNext]_vars

(***************************************************************************)
(* Properties.                                                             *)
(***************************************************************************)
\* the last run of animate or of the cleanup did `op`
HasOp(op) == \E k \in DOMAIN trace : trace[k].op = op

\* the events `op` of the last run, in order
Events(op) == SelectSeq(trace, LAMBDA e : e.op = op)

Slots == 1 .. maxArcs

\* slot i holds another arc after the step than before it
SlotReplaced(i) == arcs'[i].line.id # arcs[i].line.id

ArcDisposed(d, id) ==
    Disposed(d, <<"arcGeometry", id>>) /\ Disposed(d, <<"arcMaterial", id>>)

\* C1, one step: while the component is mounted the pool holds exactly maxArcs arcs at
\* every frame boundary, and a step that creates arcs puts each of them in the
\* slot of an arc it disposed: a slot whose arc changed holds an arc created in
\* this step and its old arc is disposed and out of the scene, a slot whose arc
\* did not change holds an arc that is not disposed, and as many slots changed
\* as arcs were created.
C1_PoolStep ==
    mounted' =>
        /\ Len(arcs') = maxArcs
        /\ \A i \in Slots :
               IF SlotReplaced(i)
               THEN /\ arcs'[i].line.id \in lineSeq .. (lineSeq' - 1)
                    /\ ArcDisposed(disposeCalls', arcs[i].line.id)
                    /\ arcs[i].line.id \notin sceneLines'
               ELSE ~ArcDisposed(disposeCalls', arcs[i].line.id)
        /\ Cardinality({i \in Slots : SlotReplaced(i)}) = lineSeq' - lineSeq

\* C1: the pool holds maxArcs arcs after the effect, and every step keeps
\* C1_PoolStep: maxArcs arcs, each new arc in the slot of the arc it replaces.
C1_ArcPoolSize == (Len(arcs) = maxArcs) /\ [][C1_PoolStep]_vars

\* C1 witness: a frame boundary, mounted, after a frame in which one arc
\* completed and another arc's update threw, both replaced
C1_Witness ==
    /\ mounted
    /\ HasOp("throw")
    /\ HasOp("startShimmerEffect")
    /\ Len(Events("createArc")) = 2
    /\ Len(arcs) = maxArcs

\* C2: once the cleanup function has run no frame request is pending, the
\* cleanup did not throw, and animate never runs and nothing is rendered again.
C2_Stopped ==
    /\ [](~mounted => (pendingFrames = {} /\ uncaught = 0))
    /\ [][~mounted => (frames' = frames /\ renderCalls' = renderCalls
                        /\ pendingFrames' = {})]_vars

\* C2 witness: unmounted after several frames and before the font callback
C2_Witness ==
    /\ ~mounted
    /\ textMesh = Null
    /\ fontStatus = "loading"
    /\ frames > 1
    /\ pendingFrames = {}

\* C3: every record whose progress reached 1 in the last shimmer pass was
\* removed from the list, and right after it was processed the material's
\* color, metalness and emissive were the values startShimmerEffect captured
\* for it; when that record was the last one the pass processed, this is the
\* material at the frame boundary.
C3_ShimmerRestoreExact ==
    \A k \in DOMAIN trace :
        trace[k].op = "restore" =>
            LET e == trace[k]
            IN  /\ e.anim.progress >= Scale
                /\ e.material.color = e.anim.originalColor
                /\ e.material.metalness = e.anim.originalMetalness
                /\ e.material.emissive = e.anim.originalEmissive
                /\ Len(e.after) = Len(e.before) - 1
                /\ e.after = RemoveAt(e.before, e.index + 1)
                /\ (e.index = 0 /\ mounted) =>
                       /\ material.color = e.anim.originalColor
                       /\ material.metalness = e.anim.originalMetalness
                       /\ material.emissive = e.anim.originalEmissive

\* C3 witness: a record was restored while a later one was still running, and
\* the values it captured were not the ones the pass had just set
C3_Witness ==
    \E k \in DOMAIN trace :
        /\ trace[k].op = "restore"
        /\ trace[k].after # <<>>
        /\ trace[k].index = 0
        /\ material = RestoreMaterial(trace[k].anim)
        /\ material # ShimmerMaterial(trace[k].anim, trace[k].anim.progress)

\* every GPU resource the component has created so far
Created ==
    StaticResources
    \cup UNION {ArcResources(id) : id \in 1 .. (lineSeq - 1)}
    \cup (IF textMesh # Null THEN TextResources ELSE {})

\* C4 (as claimed): once the component is unmounted every GPU resource it
\* created has been disposed.
C4_AllDisposedOnUnmount ==
    ~mounted => \A x \in Created : Disposed(disposeCalls, x)

\* the step lowers the progress held in slot i
ProgressDrops(i) == arcs'[i].progress < arcs[i].progress

\* the arc of slot i reaches progress 1 when it is advanced once more
Completes(i) == arcs[i].progress + arcs[i].speed >= Scale

\* the last run of animate caught an exception from the update of slot i
Threw(t, i) == \E k \in DOMAIN t : t[k].op = "throw" /\ t[k].index = i - 1

\* C5 (as claimed): per slot, progress never decreases from one frame boundary
\* to the next except by the reset to 0 at a replacement, and that replacement
\* happens after the arc's progress has crossed 1.
C5_ResetOnlyAfterCompletion ==
    [][\A i \in Slots :
           ProgressDrops(i) =>
               (arcs'[i].progress = 0 /\ SlotReplaced(i) /\ Completes(i))]_vars

\* C5 (amended): per slot, progress never decreases from one frame boundary to
\* the next except by the reset to 0 at a replacement, and that replacement
\* happens after the arc's progress has crossed 1 or after the arc's geometry
\* update threw in that frame.
C5_ResetOnlyAtReplacement ==
    [][\A i \in Slots :
           ProgressDrops(i) =>
               /\ arcs'[i].progress = 0
               /\ SlotReplaced(i)
               /\ Completes(i) \/ Threw(trace', i)]_vars

\* C5 witness: an arc that had advanced in earlier frames was replaced in the
\* last frame because its update threw, short of progress 1
C5_Witness ==
    \E k \in DOMAIN trace :
        /\ trace[k].op = "throw"
        /\ trace[k].arc.progress > trace[k].arc.speed
        /\ trace[k].arc.progress < Scale
        /\ arcs[trace[k].index + 1].progress = 0
        /\ arcs[trace[k].index + 1].line.id # trace[k].arc.line.id

EventsOf(t, op) == SelectSeq(t, LAMBDA e : e.op = op)

\* the step is one invocation of animate
AnimateStep == frames' = frames + 1

\* the slots the invocation of animate that wrote t selected, in order
SelectedOf(t) == EventsOf(t, "select")[1].indices

\* the records of the shimmer list that the next shimmer pass removes
Expiring == {k \in DOMAIN shimmerAnimations :
                 shimmerAnimations[k].progress + ShimmerStep >= Scale}

DisposedOnce(d, id) ==
    /\ ArcDisposed(d, id)
    /\ d[<<"arcGeometry", id>>] = 1
    /\ d[<<"arcMaterial", id>>] = 1

\* C6, one step: in a frame, for the selected arcs that reach progress 1, in the order
\* they were selected: startShimmerEffect runs once for each with that arc's
\* target shape and appends a record with progress 0 (which that frame's
\* shimmer pass then advances once), the arc's line geometry and material are
\* disposed and its line leaves the scene, and its slot holds an arc created in
\* that frame with progress 0 whose line is in the scene.  No other record is
\* appended: in that frame the list grows by the completed arcs and shrinks by
\* the expired records, and outside animate the list does not change.
C6_Step ==
    IF AnimateStep
    THEN LET done == SelectSeq(SelectedOf(trace'), LAMBDA idx : Completes(idx + 1))
             started == EventsOf(trace', "startShimmerEffect")
             n == Len(shimmerAnimations')
         IN  /\ Len(started) = Len(done)
             /\ n = Len(shimmerAnimations) + Len(done) - Cardinality(Expiring)
             /\ \A k \in DOMAIN done :
                    LET i == done[k] + 1
                    IN  /\ started[k].shape = arcs[i].targetShape
                        /\ started[k].progress = 0
                        /\ shimmerAnimations'[n - Len(done) + k].shape = arcs[i].targetShape
                        /\ shimmerAnimations'[n - Len(done) + k].progress = ShimmerStep
                        /\ DisposedOnce(disposeCalls', arcs[i].line.id)
                        /\ arcs[i].line.id \notin sceneLines'
                        /\ arcs'[i].progress = 0
                        /\ arcs'[i].line.id \in lineSeq .. (lineSeq' - 1)
                        /\ arcs'[i].line.id \in sceneLines'
    ELSE shimmerAnimations' = shimmerAnimations

\* C6: every step keeps C6_Step: a selected arc that reaches progress 1 starts
\* one shimmer on its target, is disposed and taken out of the scene, and is
\* replaced in its slot, in that frame; no record is appended otherwise.
C6_CompletionInFrame == [][C6_Step]_vars

\* C6 witness: in the last frame one selected arc completed and the update of
\* the other threw; one record was appended, for the completed arc's target
C6_Witness ==
    /\ Len(Events("startShimmerEffect")) = 1
    /\ Len(Events("throw")) = 1
    /\ Len(Events("disposeArc")) = 2
    /\ shimmerAnimations # <<>>
    /\ shimmerAnimations[Len(shimmerAnimations)].shape = Events("startShimmerEffect")[1].shape
    /\ shimmerAnimations[Len(shimmerAnimations)].progress = ShimmerStep

\* the invocation of animate that wrote t ran its shimmer pass and then rendered
FrameFinished(t) ==
    /\ Len(EventsOf(t, "shimmerPass")) = 1
    /\ t[Len(t)].op = "render"

\* slot i holds a new arc after the step and its old arc was disposed
DisposedAndReplaced(i) ==
    /\ SlotReplaced(i)
    /\ arcs'[i].line.id \in lineSeq .. (lineSeq' - 1)
    /\ DisposedOnce(disposeCalls', arcs[i].line.id)
    /\ arcs[i].line.id \notin sceneLines'

\* C7 (as claimed): whenever recomputing a selected arc's geometry fails, by a
\* thrown exception or by invalid sampled points, the arc is disposed and
\* replaced in its slot in that frame, no exception escapes animate, and the
\* frame reaches the shimmer pass and the render call.
C7_FailureReplaces ==
    [][AnimateStep =>
           \A k \in DOMAIN trace' :
               trace'[k].op \in {"throw", "invalidPoints"} =>
                   /\ DisposedAndReplaced(trace'[k].index + 1)
                   /\ uncaught' = uncaught
                   /\ FrameFinished(trace')
                   /\ renderCalls' = renderCalls + 1]_vars

\* C7 (amended), one step: when recomputing a selected arc's geometry throws, the arc is
\* disposed and replaced in its slot in that frame; when the sampled points
\* fail the validity check of line 296 nothing is thrown and the arc stays in
\* its slot, advanced by its speed, with its line's geometry and opacity as
\* they were.  Either way no exception escapes animate and the frame reaches
\* the shimmer pass and the render call.
C7_FailureStep ==
    AnimateStep =>
        \A k \in DOMAIN trace' :
            LET i == trace'[k].index + 1
            IN  /\ trace'[k].op = "throw" => DisposedAndReplaced(i)
                /\ trace'[k].op = "invalidPoints" =>
                       /\ arcs'[i].line = arcs[i].line
                       /\ arcs'[i].progress = arcs[i].progress + arcs[i].speed
                       /\ ~ArcDisposed(disposeCalls', arcs[i].line.id)
                       /\ arcs[i].line.id \in sceneLines'
                /\ trace'[k].op \in {"throw", "invalidPoints"} =>
                       /\ uncaught' = uncaught
                       /\ FrameFinished(trace')
                       /\ renderCalls' = renderCalls + 1

\* C7 (amended): every step keeps C7_FailureStep: a throw replaces the arc, invalid
\* points leave it in place, and either way the frame finishes.
C7_FailureNonFatal == [][C7_FailureStep]_vars

\* C7 witness: in the last frame the update of one selected arc threw and the
\* other sampled invalid points, and the frame rendered
C7_Witness ==
    /\ Len(Events("throw")) = 1
    /\ Len(Events("invalidPoints")) = 1
    /\ FrameFinished(trace)
    /\ uncaught = 0

\* C8, in full: while mounted exactly one frame request is pending at every frame
\* boundary, the one animate stored last; every invocation of animate starts
\* with one request pending at most, requests exactly one frame and renders
\* exactly once; nothing else requests a frame or renders.
C8_Step ==
    IF AnimateStep
    THEN /\ Cardinality(pendingFrames) <= 1
         /\ Len(EventsOf(trace', "requestAnimationFrame")) = 1
         /\ Len(EventsOf(trace', "render")) = 1
         /\ rafSeq' = rafSeq + 1
         /\ renderCalls' = renderCalls + 1
    ELSE rafSeq' = rafSeq /\ renderCalls' = renderCalls

\* C8: while mounted exactly one frame request is pending, and every step keeps
\* C8_Step: an invocation requests one frame and renders once.
C8_OneFramePending ==
    /\ [](mounted => (pendingFrames = {animationFrameId} /\ renderCalls = frames))
    /\ [][C8_Step]_vars

\* C8 witness: mounted, a hundred frames in, one request pending
C8_Witness ==
    /\ mounted
    /\ frames > 100
    /\ Cardinality(pendingFrames) = 1
    /\ renderCalls = frames
    /\ HasOp("render")

\* the step is a resize event: not animate, not the font callback, not the cleanup
ResizeStep == frames' = frames /\ fontStatus' = fontStatus /\ mounted' = mounted

\* C9, one step: a resize sets the camera's aspect to the window's new width / height,
\* rebuilds the projection from it and sets the renderer's size to the new
\* width and height (for 1024 x 768: aspect 4/3, size (1024, 768)); the arc
\* pool, the shimmer list, the rotations, the shared material, the pending
\* frame request and everything else stay as they were.
C9_Step ==
    ResizeStep =>
        /\ window' \in Sizes
        /\ rendererSize' = window'
        /\ camera'.aspect[1] * window'[2] = camera'.aspect[2] * window'[1]
        /\ camera'.projection = camera'.aspect
        /\ window' = <<1024, 768>> => camera'.aspect = <<4, 3>>
        /\ UNCHANGED <<mounted, uncaught, rng, arcs, shimmerAnimations, material,
                       rotation, sceneLines, lineSeq, disposeCalls, textMesh,
                       cameraChildren, pendingFrames, animationFrameId, rafSeq,
                       frames, renderCalls, faults, resizeListener, domAttached,
                       rendererDisposed, fontStatus, trace>>

\* C9: every step keeps C9_Step: a resize changes the camera's aspect and
\* projection and the renderer's size, and nothing else.
C9_ResizeOnlyCameraAndRenderer == [][C9_Step]_vars

\* C9 witness: resized to 1280 x 720 (aspect 16/9) with arcs under way and a
\* shimmer running
C9_Witness ==
    /\ mounted
    /\ window = <<1280, 720>>
    /\ rendererSize = <<1280, 720>>
    /\ camera = [aspect |-> <<16, 9>>, projection |-> <<16, 9>>]
    /\ shimmerAnimations # <<>>
    /\ \E i \in Slots : arcs[i].progress > 0

\* C14 (as claimed): whenever the shimmer list is empty at a frame boundary the
\* shared material has the color, metalness and emissive it had at setup.
C14_MaterialOriginalWhenIdle ==
    shimmerAnimations = <<>> => material = InitialMaterial

\* the step is a frame that selects slot i, whose arc stays short of progress 1,
\* and recomputing its geometry neither throws nor samples invalid points
GeometryUpdated(i) ==
    /\ AnimateStep
    /\ \E k \in DOMAIN SelectedOf(trace') : SelectedOf(trace')[k] = i - 1
    /\ ~Completes(i)
    /\ \A k \in DOMAIN trace' :
           trace'[k].op \in {"throw", "invalidPoints"} => trace'[k].index # i - 1

\* C11 (as claimed): when a selected arc's progress after the increment is
\* below 1 (and the update does not fail), its line's geometry is set to the
\* first max(2, floor(5 * progress)) points of the re-sampled curve.
C11_PrefixOfFive ==
    [][\A i \in Slots :
           GeometryUpdated(i) =>
               arcs'[i].line.points = Max(2, (5 * arcs'[i].progress) \div Scale)]_vars

\* C11 (amended): when a selected arc's progress after the increment is below 1
\* and the update neither throws nor fails the validity check, its line's
\* geometry is set to the first max(2, floor(6 * progress)) points of the
\* re-sampled curve, which has 6 points (getPoints(5)); that is between 2 and
\* 5 points, and the arc stays in its slot with its progress advanced by its
\* speed.
C11_PrefixOfSample ==
    [][\A i \in Slots :
           GeometryUpdated(i) =>
               /\ arcs'[i].progress = arcs[i].progress + arcs[i].speed
               /\ arcs'[i].line.id = arcs[i].line.id
               /\ arcs'[i].line.points = Max(2, (6 * arcs'[i].progress) \div Scale)
               /\ arcs'[i].line.points \in 2 .. 5]_vars

\* C11 witness: the last frame updated a selected arc at a progress in
\* [0.5, 0.6): its line shows 3 points, where floor(5 * progress) is 2
C11_Witness ==
    /\ mounted
    /\ ~HasOp("throw") /\ ~HasOp("invalidPoints")
    /\ \E k \in DOMAIN SelectedOf(trace) :
           LET arc == arcs[SelectedOf(trace)[k] + 1]
           IN  /\ arc.progress >= 5000
               /\ arc.progress < 6000
               /\ arc.line.points = 3
               /\ (5 * arc.progress) \div Scale = 2

\* C16, one step: a frame selects exactly max(1, floor(7 * 0.3)) = 2 slots of
\* the pool, two different ones, and leaves the arcs of the 5 other slots as
\* they were: same line, progress, geometry and opacity.
C16_Step ==
    AnimateStep =>
        LET sel == SelectedOf(trace')
        IN  /\ Len(sel) = 2
            /\ sel[1] # sel[2]
            /\ \A k \in DOMAIN sel : sel[k] \in 0 .. 6
            /\ Cardinality({i \in Slots : \A k \in DOMAIN sel : sel[k] # i - 1}) = 5
            /\ \A i \in Slots :
                   (\A k \in DOMAIN sel : sel[k] # i - 1) => arcs'[i] = arcs[i]

\* C16: the frame that ran last selected exactly 2 slots, and every step keeps
\* C16_Step: 2 different slots selected, the 5 unselected arcs unchanged.
C16_TwoSlotsSelected ==
    /\ [](HasOp("select") => Len(SelectedOf(trace)) = 2)
    /\ [][C16_Step]_vars

\* C16 witness: the last frame selected two slots; the arc of one completed and
\* was replaced, the other advanced, and arcs of unselected slots are under way
C16_Witness ==
    /\ mounted
    /\ HasOp("select")
    /\ Len(Events("createArc")) = 1
    /\ \E j, k \in DOMAIN SelectedOf(trace) :
           /\ arcs[SelectedOf(trace)[j] + 1].progress = 0
           /\ arcs[SelectedOf(trace)[k] + 1].progress > 0
    /\ \E i \in Slots :
           /\ \A k \in DOMAIN SelectedOf(trace) : SelectedOf(trace)[k] # i - 1
           /\ arcs[i].progress > 0

\* C17: at every frame boundary every arc of the pool has a progress in
\* [0, 1), and a frame in which a selected arc reaches progress 1 or more ends
\* with another arc, at progress 0, in that slot.
C17_ProgressBelowOne ==
    /\ [](\A i \in DOMAIN arcs : arcs[i].progress >= 0 /\ arcs[i].progress < Scale)
    /\ [][\A i \in Slots :
             (AnimateStep /\ Completes(i)
                  /\ \E k \in DOMAIN SelectedOf(trace') : SelectedOf(trace')[k] = i - 1) =>
                 (SlotReplaced(i) /\ arcs'[i].progress = 0)]_vars

\* C17 witness: in the last frame an arc reached progress 1 and its slot now
\* holds an arc at progress 0, while another arc of the pool is past 0.9
C17_Witness ==
    /\ mounted
    /\ Len(Events("startShimmerEffect")) = 1
    /\ \E k \in DOMAIN SelectedOf(trace) : arcs[SelectedOf(trace)[k] + 1].progress = 0
    /\ \E i \in Slots : 10 * arcs[i].progress >= 9 * Scale
    /\ \A i \in Slots : arcs[i].progress < Scale

\* the passes a shimmer record has been through: its progress over the step
Passes(anim) == anim.progress \div ShimmerStep

\* C18, one step: in a frame the arc pass (and with it every
\* startShimmerEffect) comes before the shimmer pass, and the restores come in
\* the shimmer pass; the pass advances every record by 0.05, the ones appended
\* in this frame included, so these end the frame at 0.05 after 1 pass; a
\* record that had been through 19 passes reaches progress 1 in this one, its
\* 20th, and is restored and removed, and every other record stays, in order.
C18_Step ==
    AnimateStep =>
        LET kept == SelectSeq(shimmerAnimations, LAMBDA a : Passes(a) < 19)
            started == EventsOf(trace', "startShimmerEffect")
            restores == EventsOf(trace', "restore")
        IN  /\ \A j, k \in DOMAIN trace' :
                   /\ (trace'[j].op = "startShimmerEffect" /\ trace'[k].op = "shimmerPass")
                          => j < k
                   /\ (trace'[j].op = "shimmerPass" /\ trace'[k].op = "restore") => j < k
            /\ Len(EventsOf(trace', "shimmerPass")) = 1
            /\ Len(shimmerAnimations') = Len(kept) + Len(started)
            /\ \A k \in DOMAIN kept :
                   /\ shimmerAnimations'[k] = [kept[k] EXCEPT !.progress = @ + ShimmerStep]
                   /\ Passes(shimmerAnimations'[k]) = Passes(kept[k]) + 1
            /\ \A k \in DOMAIN started :
                   /\ shimmerAnimations'[Len(kept) + k].shape = started[k].shape
                   /\ Passes(shimmerAnimations'[Len(kept) + k]) = 1
            /\ Len(restores) = Len(shimmerAnimations) - Len(kept)
            /\ \A k \in DOMAIN restores :
                   /\ restores[k].anim.progress = Scale
                   /\ Passes(restores[k].anim) = 20

\* C18: at every frame boundary every shimmer record has been through 1 to 19
\* passes and its progress is that many steps of 0.05, the records are in the
\* list oldest first, and every step keeps C18_Step; so a record appended in
\* frame N is first advanced in frame N and is restored and removed in its
\* 20th pass, in frame N + 19.  While the frame loop runs (the component stays
\* mounted and at least 19 more frames are followed) a list that is not empty
\* leads to the restore and removal of its first, oldest record.
C18_ShimmerTwentyPasses ==
    /\ [](\A k \in DOMAIN shimmerAnimations :
              /\ Passes(shimmerAnimations[k]) \in 1 .. 19
              /\ shimmerAnimations[k].progress = Passes(shimmerAnimations[k]) * ShimmerStep
              /\ k > 1 => Passes(shimmerAnimations[k]) <= Passes(shimmerAnimations[k - 1]))
    /\ [][C18_Step]_vars
    /\ (mounted /\ shimmerAnimations # <<>> /\ frames + 19 <= MaxFrames)
           ~> (~mounted \/ \E k \in DOMAIN trace : trace[k].op = "restore" /\ trace[k].index = 0)

\* C18 witness: the last frame restored and removed a record in its 20th pass
\* while a record appended in that frame has been through its first
C18_Witness ==
    /\ mounted
    /\ Len(Events("restore")) = 1
    /\ Passes(Events("restore")[1].anim) = 20
    /\ Len(Events("startShimmerEffect")) = 1
    /\ shimmerAnimations # <<>>
    /\ Passes(shimmerAnimations[Len(shimmerAnimations)]) = 1

\* no two shapes share a position
PositionsDistinct == \A i, j \in ShapeIndices : Position(i) = Position(j) => i = j

\* C19: every arc of the pool has a target shape other than its start shape,
\* so its start and end positions differ (no two shapes share a position) and
\* its control point is the midpoint of start and end raised in y by a
\* positive height.
C19_EndDiffersFromStart ==
    /\ PositionsDistinct
    /\ \A k \in DOMAIN arcs :
           LET arc == arcs[k]
           IN  /\ arc.targetShape # arc.startShape
               /\ arc.targetShape \in ShapeIndices
               /\ arc.startShape \in ShapeIndices
               /\ arc.start = Position(arc.startShape)
               /\ arc.end = Position(arc.targetShape)
               /\ arc.start # arc.end
               /\ 2 * arc.control[1] = arc.start[1] + arc.end[1]
               /\ 2 * arc.control[3] = arc.start[3] + arc.end[3]
               /\ 2 * arc.control[2] > arc.start[2] + arc.end[2]

\* C19 witness: the last frame created an arc whose end shape was drawn more
\* than once, the first draw being the start shape
C19_Witness ==
    \E k \in DOMAIN trace :
        /\ trace[k].op = "createArc"
        /\ trace[k].draws > 1
        /\ \E i \in Slots :
               /\ arcs[i].line.id = trace[k].line
               /\ arcs[i].targetShape # arcs[i].startShape

\* the ids of the arc lines created so far
LinesCreated == 1 .. (lineSeq - 1)

\* the ids of the lines of the pooled arcs
PoolLines == {arcs[i].line.id : i \in DOMAIN arcs}

\* neither the geometry nor the material of line id has had a dispose() call
Undisposed(d, id) ==
    ~Disposed(d, <<"arcGeometry", id>>) /\ ~Disposed(d, <<"arcMaterial", id>>)

\* C21, every state: while mounted the scene holds exactly the maxArcs lines of
\* the pooled arcs; a created line is either in the scene and not disposed, or
\* out of the scene with one dispose() call on its geometry and one on its
\* material; after unmount no arc line is in the scene; nothing that is not a
\* created arc line has arc dispose() calls.
C21_Accounted ==
    /\ sceneLines \subseteq LinesCreated
    /\ mounted =>
           /\ sceneLines = PoolLines
           /\ Cardinality(sceneLines) = maxArcs
           /\ Len(arcs) = maxArcs
    /\ ~mounted => sceneLines = {}
    /\ \A id \in LinesCreated :
           IF id \in sceneLines
           THEN Undisposed(disposeCalls, id)
           ELSE DisposedOnce(disposeCalls, id)
    /\ \A x \in DOMAIN disposeCalls :
           x[1] \in {"arcGeometry", "arcMaterial"} => x[2] \in LinesCreated

\* C21, one step: a line is disposed in the step in which it leaves the scene
\* (a frame that replaces its arc, or the cleanup) and never comes back; the
\* lines added are new ones; a line whose geometry or opacity the step sets is
\* not disposed, before the step or after it.
C21_Step ==
    /\ sceneLines' \cap LinesCreated \subseteq sceneLines
    /\ \A id \in sceneLines \ sceneLines' :
           /\ Undisposed(disposeCalls, id)
           /\ DisposedOnce(disposeCalls', id)
           /\ \/ AnimateStep /\ mounted' /\ id \notin PoolLines'
              \/ mounted /\ ~mounted'
    /\ \A i \in DOMAIN arcs :
           (i \in DOMAIN arcs' /\ arcs'[i].line # arcs[i].line
              /\ arcs'[i].line.id = arcs[i].line.id) =>
               /\ Undisposed(disposeCalls, arcs[i].line.id)
               /\ Undisposed(disposeCalls', arcs[i].line.id)
    /\ \A id \in LinesCreated \ sceneLines :
           /\ disposeCalls'[<<"arcGeometry", id>>] = disposeCalls[<<"arcGeometry", id>>]
           /\ disposeCalls'[<<"arcMaterial", id>>] = disposeCalls[<<"arcMaterial", id>>]

\* C21: arc line resources are accounted for exactly: at every frame boundary
\* while mounted the scene contains exactly 7 arc lines, the lines of the 7
\* pooled arcs; every arc line ever created is disposed and removed from the
\* scene exactly once, at replacement or at unmount, none is disposed twice,
\* and no line is updated after it has been disposed.
C21_ArcLinesAccounted == []C21_Accounted /\ [][C21_Step]_vars

\* C21 witness: unmounted after frames that replaced arcs, one of them after
\* its update threw and others after completion; every line ever created is
\* out of the scene and disposed once
C21_Witness ==
    /\ ~mounted
    /\ faults > 0
    /\ lineSeq - 1 > maxArcs + 2
    /\ sceneLines = {}
    /\ \A id \in LinesCreated : DisposedOnce(disposeCalls, id)

(***************************************************************************)
(* Properties of the progress of one arc (ProgressSpec).                   *)
(***************************************************************************)
\* n * x, not rounded
RECURSIVE ExactTimes(_, _)
ExactTimes(n, x) ==
    IF n = 0 THEN DoubleZero
    ELSE LET half == ExactTimes(n \div 2, x)
             even == ExactAdd(half, half)
         IN  IF n % 2 = 1 THEN ExactAdd(even, x) ELSE even

\* ceil(1 / x) in exact arithmetic, for 0.02 <= x
CeilOfInverse(x) ==
    CHOOSE k \in 1 .. 50 : AtLeastOne(ExactTimes(k, x)) /\ ~AtLeastOne(ExactTimes(k - 1, x))

\* 0.02 <= speed < 0.05, in exact arithmetic
SpeedInRange(speed) == AtLeastOne(ExactTimes(50, speed)) /\ ~AtLeastOne(ExactTimes(20, speed))

\* the speed is fixed at creation; a frame that does not select the slot leaves
\* the arc alone; a frame that selects it adds the speed once, and replaces the
\* arc if and only if the sum, rounded to a double, is at least 1
C20_Step ==
    LET sum == DoubleAdd(calc.progress, calc.speed)
    IN  /\ calc'.event # "replaced" => calc'.speed = calc.speed
        /\ calc'.event = "skipped" =>
               /\ calc'.progress = calc.progress
               /\ calc'.selections = calc.selections
        /\ calc'.event = "advanced" =>
               /\ ~AtLeastOne(sum)
               /\ calc'.selections = calc.selections + 1
               /\ calc'.progress = sum
        /\ calc'.event = "replaced" =>
               /\ AtLeastOne(sum)
               /\ calc'.last = [speed |-> calc.speed, selections |-> calc.selections + 1]
               /\ calc'.selections = 0
               /\ calc'.progress = DoubleZero

\* the part of C20 that every state satisfies: the speed of the arc is in
\* [0.02, 0.05) and an arc of the pool is below progress 1
C20_SpeedFixed ==
    /\ SpeedInRange(calc.speed)
    /\ ~AtLeastOne(calc.progress)
    /\ IF calc.last = NoArc THEN TRUE ELSE SpeedInRange(calc.last.speed)

\* every arc is completed and replaced
C20_Replaced == []<><<calc'.event = "replaced">>_vars

\* C20 as stated: an arc's speed is fixed at creation in [0.02, 0.05); the arc
\* is replaced in the k-th frame that selects its slot with k = ceil(1 / speed)
\* and 21 <= k <= 50; a slot selected infinitely often has every arc replaced.
C20_CeilOfInverse ==
    /\ [](/\ C20_SpeedFixed
          /\ IF calc.last = NoArc THEN TRUE
             ELSE /\ calc.last.selections = CeilOfInverse(calc.last.speed)
                  /\ calc.last.selections >= 21
                  /\ calc.last.selections <= 50)
    /\ [][C20_Step]_vars
    /\ C20_Replaced

\* C20, amended: an arc's speed is fixed at creation in [0.02, 0.05); the arc
\* is replaced in the k-th frame that selects its slot, the first one in which
\* the running sum of the speed, every sum rounded to a double, is at least 1;
\* 20 <= k <= 50 and k differs from ceil(1 / speed) by at most 1; a slot selected infinitely often has every
\* arc replaced.
C20_RunningSum ==
    /\ [](/\ C20_SpeedFixed
          /\ IF calc.last = NoArc THEN TRUE
             ELSE LET k == calc.last.selections
                      c == CeilOfInverse(calc.last.speed)
                  IN  /\ k >= 20
                      /\ k <= 50
                      /\ k >= c - 1
                      /\ k <= c + 1)
    /\ [][C20_Step]_vars
    /\ C20_Replaced

\* C20 witness: the last frame replaced an arc of the largest speed below 0.05
\* at its 20th selection, one selection before ceil(1 / speed) = 21
C20_Witness ==
    /\ calc.op = "arc"
    /\ calc.event = "replaced"
    /\ calc.last.selections = 20
    /\ CeilOfInverse(calc.last.speed) = 21

(***************************************************************************)
(* Properties of the hex-grid loop (HexSpec).                              *)
(***************************************************************************)
Abs(x) == IF x < 0 THEN -x ELSE x

\* (q, r) is an axial coordinate of the hexagon of radius g
HexValid(p, g) == Abs(p[1]) <= g /\ Abs(p[2]) <= g /\ Abs(p[1] + p[2]) <= g

Hexagon(g) == {p \in (-g .. g) \X (-g .. g) : HexValid(p, g)}

\* C10: the coordinates the loop has pushed are pairwise distinct and all valid
\* axial coordinates of the hexagon of radius gridSize; when the loop ends it
\* has pushed 3 * gridSize^2 + 3 * gridSize + 1 of them (91 for gridSize = 5),
\* every coordinate of the hexagon among them.
C10_HexGrid ==
    /\ \A k \in DOMAIN hex.shapes : HexValid(hex.shapes[k], hex.g)
    /\ \A j, k \in DOMAIN hex.shapes : hex.shapes[j] = hex.shapes[k] => j = k
    /\ hex.pc = "done" =>
           /\ Len(hex.shapes) = 3 * hex.g * hex.g + 3 * hex.g + 1
           /\ {hex.shapes[k] : k \in DOMAIN hex.shapes} = Hexagon(hex.g)
           /\ hex.g = gridSize => (Len(hex.shapes) = 91 /\ hex.shapes = shapes)

\* C10 witness: the loop has ended for gridSize = 5 with 91 shapes
C10_Witness ==
    /\ hex.pc = "done"
    /\ hex.g = gridSize
    /\ hex.g = 5
    /\ Len(hex.shapes) = 91

(***************************************************************************)
(* Properties of the opacity and of the control point (CalcSpec).          *)
(***************************************************************************)
\* C12: the arc opacity min(1, 2 * (1 - progress)) * 0.5 is non-increasing in
\* progress over [0, 1], is 0.5 for progress <= 0.5, is positive below
\* progress 1 and is 0 at progress 1.
C12_OpacityMonotone ==
    calc.op = "opacity" =>
        /\ calc.p <= calc.q => calc.atP >= calc.atQ
        /\ 2 * calc.p <= Scale => 2 * calc.atP = Scale
        /\ calc.p < Scale => calc.atP > 0
        /\ calc.p = Scale => calc.atP = 0

\* C12 witness: the opacity at a progress in (0.5, 1) is between 0 and 0.5,
\* and at progress 1 it is 0
C12_Witness ==
    /\ calc.op = "opacity"
    /\ 2 * calc.p > Scale
    /\ calc.p < calc.q
    /\ calc.q = Scale
    /\ calc.atP > 0
    /\ 2 * calc.atP < Scale
    /\ calc.atQ = 0

\* C13: the control point has the x and z of the midpoint of start and end,
\* and its y is the midpoint's y plus half the distance from start to end
\* (rounded down to 1 / PosScale); for start (0,0,0) and end (4,0,0) it is
\* (2, 2, 0).
C13_ControlPoint ==
    calc.op = "control" =>
        LET a == calc.start
            b == calc.end
            height == calc.control[2] - (a[2] + b[2]) \div 2
            squared == (a[1] - b[1]) * (a[1] - b[1]) + (a[2] - b[2]) * (a[2] - b[2])
                       + (a[3] - b[3]) * (a[3] - b[3])
        IN  /\ 2 * calc.control[1] = a[1] + b[1]
            /\ 2 * calc.control[3] = a[3] + b[3]
            /\ height >= 0
            /\ (2 * height) * (2 * height) <= squared
            /\ squared < (2 * height + 2) * (2 * height + 2)
            /\ (a = <<0, 0, 0>> /\ b = <<4 * PosScale, 0, 0>>) =>
                   calc.control = <<2 * PosScale, 2 * PosScale, 0>>

\* C13 witness: the control point (2, 2, 0) of start (0,0,0) and end (4,0,0)
C13_Witness ==
    /\ calc.op = "control"
    /\ calc.start = <<0, 0, 0>>
    /\ calc.end = <<4 * PosScale, 0, 0>>
    /\ calc.control = <<2 * PosScale, 2 * PosScale, 0>>

(***************************************************************************)
(* Properties of the simpler variants (VariantSpec).                       *)
(***************************************************************************)
\* C15 (as claimed): in the simpler variants, once the cleanup function has run
\* no frame request is pending, animate is never invoked again and no render
\* is issued on the disposed geometry and materials.
C15_VariantStopped ==
    /\ [](~variant.mounted => variant.pendingFrames = {})
    /\ [][~variant.mounted => (variant'.frames = variant.frames
                                /\ variant'.renderCalls = variant.renderCalls)]_vars

====
